---- MODULE Spec2Model ----
(***************************************************************************)
(* A model of the collision engine of src/collision.py (CollisionEngine).  *)
(*                                                                         *)
(* Rectangles are pygame Rects with integer coordinates: the record        *)
(* [x, y, w, h], the y axis pointing down.  Angles are compared exactly    *)
(* (by cross and dot products of integer vectors) instead of in floating   *)
(* point: two vectors have the same angle exactly when they are parallel   *)
(* and point the same way.                                                 *)
(***************************************************************************)
EXTENDS Integers, Sequences, FiniteSets, TLC

VARIABLES
    players,     \* scene.players: sequence of player records
    walls,       \* scene.walls: sequence of rectangles
    sPlatforms,  \* scene.sPlatforms: sequence of rectangles
    dPlatforms,  \* scene.dPlatforms: sequence of rectangles
    mPlatforms,  \* scene.mPlatforms: sequence of [rect, dx, dy]
    switches,    \* scene.switches: sequence of [rect, isOn]
    doors,       \* scene.doors: sequence of [rect, isClosed]
    spikes,      \* scene.spikes: sequence of rectangles
    bosses,      \* scene.bosses: sequence of rectangles
    sceneRect,   \* scene.rect
    audio,       \* self.audio.state
    messages,    \* what the last handler sent with messageScene
    calls,       \* the resolvers the last handler ran, in order
    event,       \* the event the last handler was given
    direction    \* the last value returned by the classifier on its own

vars == <<players, walls, sPlatforms, dPlatforms, mPlatforms, switches, doors,
          spikes, bosses, sceneRect, audio, messages, calls, event, direction>>

scenery == <<walls, sPlatforms, dPlatforms, mPlatforms, doors, spikes, bosses,
             sceneRect>>

----------------------------------------------------------------------------
(* Bounds of the model *)

MaxSize == 6
MaxApply == 2
MaxSpeed == 40
MaxDisp == 2

\* the widths and heights of rectangles, and the coordinates of movers
Sizes == 2..MaxSize
Offsets == (0 - MaxSize)..MaxSize

----------------------------------------------------------------------------
(* pygame.Rect *)

Rect(x, y, w, h) == [x |-> x, y |-> y, w |-> w, h |-> h]

Left(r) == r.x
Top(r) == r.y
Right(r) == r.x + r.w
Bottom(r) == r.y + r.h
CenterX(r) == r.x + (r.w \div 2)
CenterY(r) == r.y + (r.h \div 2)

SetBottom(r, v) == [r EXCEPT !.y = v - r.h]
SetTop(r, v) == [r EXCEPT !.y = v]
SetLeft(r, v) == [r EXCEPT !.x = v]
SetRight(r, v) == [r EXCEPT !.x = v - r.w]

\* pg.sprite.collide_rect / Rect.colliderect, for rectangles of positive size
CollideRect(a, b) ==
    /\ a.x < b.x + b.w
    /\ a.y < b.y + b.h
    /\ a.x + a.w > b.x
    /\ a.y + a.h > b.y

\* pg.Rect.contains(a, b)
Contains(a, b) ==
    /\ a.x <= b.x
    /\ a.y <= b.y
    /\ a.x + a.w >= b.x + b.w
    /\ a.y + a.h >= b.y + b.h
    /\ a.x + a.w > b.x
    /\ a.y + a.h > b.y

----------------------------------------------------------------------------
(* Vector2.angle_to(...) % 360, compared exactly *)

Cross(a, b) == a[1] * b[2] - a[2] * b[1]
Dot(a, b) == a[1] * b[1] + a[2] * b[2]

\* atan2(0, 0) is 0: the zero vector has the angle of <<1, 0>>
Dir(a) == IF a = <<0, 0>> THEN <<1, 0>> ELSE a

\* where origin.angle_to(a) % 360 lies: 0 for exactly 0, 1 for (0, 180),
\* 2 for exactly 180, 3 for (180, 360)
Half(origin, a) ==
    LET c == Cross(Dir(origin), Dir(a))
        d == Dot(Dir(origin), Dir(a))
    IN  IF c = 0 THEN (IF d > 0 THEN 0 ELSE 2)
        ELSE IF c > 0 THEN 1 ELSE 3

\* origin.angle_to(a) % 360 < origin.angle_to(b) % 360
AngleLess(origin, a, b) ==
    \/ Half(origin, a) < Half(origin, b)
    \/ /\ Half(origin, a) = Half(origin, b)
       /\ Half(origin, a) \in {1, 3}
       /\ Cross(Dir(a), Dir(b)) > 0

----------------------------------------------------------------------------
(* The Directional Classifier *)

\* a mutant of checkCollisionDirection: the left and right sectors swapped
checkCollisionDirectionSwapped(moving, static) ==
    IF ~CollideRect(moving, static) THEN "none"
    ELSE
    LET x == CenterX(static)
        y == CenterY(static)
        u == CenterX(moving)
        v == CenterY(moving)
        vec_M00 == <<x - Left(static), y - Top(static)>>
        vec_M10 == <<x - Right(static), y - Top(static)>>
        vec_M11 == <<x - Right(static), y - Bottom(static)>>
        vec_M01 == <<x - Left(static), y - Bottom(static)>>
        origin == vec_M00
        displacement == <<x - u, y - v>>
    IN  IF AngleLess(origin, vec_M00, displacement)
            /\ AngleLess(origin, displacement, vec_M10) THEN "bottom"
        ELSE IF AngleLess(origin, vec_M10, displacement)
            /\ AngleLess(origin, displacement, vec_M11) THEN "right"
        ELSE IF AngleLess(origin, vec_M11, displacement)
            /\ AngleLess(origin, displacement, vec_M01) THEN "top"
        ELSE IF AngleLess(origin, vec_M01, displacement) THEN "left"
        ELSE "none"

\* _checkCollisionDirection; "none" is Python's None (no return statement runs)
checkCollisionDirection(moving, static) ==
    IF ~CollideRect(moving, static) THEN "none"
    ELSE
    LET x == CenterX(static)
        y == CenterY(static)
        u == CenterX(moving)
        v == CenterY(moving)
        vec_M00 == <<x - Left(static), y - Top(static)>>
        vec_M10 == <<x - Right(static), y - Top(static)>>
        vec_M11 == <<x - Right(static), y - Bottom(static)>>
        vec_M01 == <<x - Left(static), y - Bottom(static)>>
        origin == vec_M00
        displacement == <<x - u, y - v>>
        isCollideBottom == /\ AngleLess(origin, vec_M00, displacement)
                           /\ AngleLess(origin, displacement, vec_M10)
        isCollideLeft == /\ AngleLess(origin, vec_M10, displacement)
                         /\ AngleLess(origin, displacement, vec_M11)
        isCollideTop == /\ AngleLess(origin, vec_M11, displacement)
                        /\ AngleLess(origin, displacement, vec_M01)
        isCollideRight == AngleLess(origin, vec_M01, displacement)
    IN  IF isCollideBottom THEN "bottom"
        ELSE IF isCollideLeft THEN "left"
        ELSE IF isCollideTop THEN "top"
        ELSE IF isCollideRight THEN "right"
        ELSE "none"

----------------------------------------------------------------------------
(* Players *)

Player(num, rect, vx, vy, ground) ==
    [num |-> num, rect |-> rect, vx |-> vx, vy |-> vy, isOnGround |-> ground,
     dispX |-> 0, dispY |-> 0,
     coop_jump |-> IF num = 1 THEN "K_p1jump" ELSE "K_p2jump"]

----------------------------------------------------------------------------
(* The Basic Resolver *)

\* pg.sprite.spritecollide(sprite, group, False) over a sequence of rectangles
spritecollide(rect, group) == SelectSeq(group, LAMBDA g : CollideRect(rect, g))

\* a mutant of BasicStep: the mover is nudged out by one unit, not snapped
BasicStepNudge(moving, wall) ==
    LET d == checkCollisionDirection(moving.rect, wall)
    IN  IF d = "bottom" THEN
            [moving EXCEPT !.rect = SetTop(@, Top(@) - 1),
                           !.vy = 0, !.isOnGround = TRUE]
        ELSE IF d = "left" THEN
            [moving EXCEPT !.rect = SetLeft(@, Left(@) + 1), !.vx = 0]
        ELSE IF d = "top" THEN
            [moving EXCEPT !.rect = SetTop(@, Top(@) + 1), !.vy = 0]
        ELSE IF d = "right" THEN
            [moving EXCEPT !.rect = SetLeft(@, Left(@) - 1), !.vx = 0]
        ELSE moving

\* the body of the loop of _resolveBasicCollision, for one wall of hits
BasicStep(moving, wall) ==
    LET d == checkCollisionDirection(moving.rect, wall)
    IN  IF d = "bottom" THEN
            [moving EXCEPT !.rect = SetBottom(@, Top(wall)),
                           !.vy = 0, !.isOnGround = TRUE]
        ELSE IF d = "left" THEN
            [moving EXCEPT !.rect = SetLeft(@, Right(wall)), !.vx = 0]
        ELSE IF d = "top" THEN
            [moving EXCEPT !.rect = SetTop(@, Bottom(wall)), !.vy = 0]
        ELSE IF d = "right" THEN
            [moving EXCEPT !.rect = SetRight(@, Left(wall)), !.vx = 0]
        ELSE moving

RECURSIVE BasicFold(_, _)
BasicFold(moving, hits) ==
    IF hits = <<>> THEN moving
    ELSE BasicFold(BasicStep(moving, Head(hits)), Tail(hits))

\* _resolveBasicCollision: hits is computed once, before the loop
resolveBasicCollision(moving, group) ==
    BasicFold(moving, spritecollide(moving.rect, group))

----------------------------------------------------------------------------
(* The engine's state as the resolvers thread it *)

Engine ==
    [players |-> players, switches |-> switches, audio |-> audio,
     messages |-> messages, calls |-> calls]

\* the state a handler starts from: nothing sent, nothing run yet
Fresh == [Engine EXCEPT !.messages = <<>>, !.calls = <<>>]

Commit(e) ==
    /\ players' = e.players
    /\ switches' = e.switches
    /\ audio' = e.audio
    /\ messages' = e.messages
    /\ calls' = e.calls

\* resolveWallCollisions
resolveWallCollisions(e) ==
    [e EXCEPT !.players =
                  [i \in 1..Len(@) |-> resolveBasicCollision(@[i], walls)],
              !.calls = Append(@, "walls")]

\* resolveSPlatformCollisions
resolveSPlatformCollisions(e) ==
    [e EXCEPT !.players =
                  [i \in 1..Len(@) |-> resolveBasicCollision(@[i], sPlatforms)],
              !.calls = Append(@, "sPlatforms")]

Abs(n) == IF n < 0 THEN 0 - n ELSE n

\* a mutant of DPlatformStep: the vertical velocity is zeroed as the Basic
\* Resolver does, upward or not
DPlatformStepZeroing(player, platform) ==
    IF checkCollisionDirection(player.rect, platform) = "bottom"
        /\ Abs(Bottom(player.rect) - Top(platform)) < 30
    THEN [player EXCEPT !.rect = SetBottom(@, Top(platform)),
                        !.isOnGround = TRUE,
                        !.vy = 0]
    ELSE player

\* the body of the loop of resolveDPlatformCollisions, for one platform of hits
DPlatformStep(player, platform) ==
    LET d == checkCollisionDirection(player.rect, platform)
        tol == Abs(Bottom(player.rect) - Top(platform))
    IN  IF d = "bottom" /\ tol < 30
        THEN [player EXCEPT !.rect = SetBottom(@, Top(platform)),
                            !.isOnGround = TRUE,
                            !.vy = IF @ > 0 THEN 0 ELSE @]
        ELSE player

RECURSIVE DPlatformFold(_, _)
DPlatformFold(player, hits) ==
    IF hits = <<>> THEN player
    ELSE DPlatformFold(DPlatformStep(player, Head(hits)), Tail(hits))

\* resolveDPlatformCollisions
resolveDPlatformCollisions(e) ==
    [e EXCEPT !.players =
                  [i \in 1..Len(@) |->
                      DPlatformFold(@[i], spritecollide(@[i].rect, dPlatforms))],
              !.calls = Append(@, "dPlatforms")]

RectsOf(group) == [i \in 1..Len(group) |-> group[i].rect]

\* physics.addDisplacementX / addDisplacementY: the platform's displacement is
\* added to the player's accumulator
RECURSIVE addDisplacements(_, _)
addDisplacements(player, hits) ==
    IF hits = <<>> THEN player
    ELSE addDisplacements(
             [player EXCEPT !.dispX = @ + Head(hits).dx,
                            !.dispY = @ + Head(hits).dy],
             Tail(hits))

\* resolveMPlatformCollisions: hits is taken before the Basic Resolver moves
\* the player
resolveMPlatformCollisions(e) ==
    [e EXCEPT !.players =
                  [i \in 1..Len(@) |->
                      addDisplacements(
                          resolveBasicCollision(@[i], RectsOf(mPlatforms)),
                          SelectSeq(mPlatforms,
                                    LAMBDA m : CollideRect(e.players[i].rect,
                                                           m.rect)))],
              !.calls = Append(@, "mPlatforms")]

\* resolveSwitchCollisions: s.turnOff() clears isOn
resolveSwitchCollisions(e) ==
    [e EXCEPT !.switches =
                  [i \in 1..Len(@) |->
                      IF /\ @[i].isOn
                         /\ \E k \in 1..Len(e.players) :
                              /\ CollideRect(e.players[k].rect, @[i].rect)
                              /\ (e.players[k].vx # 0 \/ e.players[k].vy # 0)
                      THEN [@[i] EXCEPT !.isOn = FALSE]
                      ELSE @[i]],
              !.calls = Append(@, "switches")]

\* self.messageScene("death", player.num) for each of the given players
Deaths(hit) == [i \in 1..Len(hit) |-> <<"death", hit[i].num>>]

\* a mutant of resolveDoorCollisions: one open door is enough
resolveDoorCollisionsAnyOpen(e) ==
    LET onOpen == SelectSeq(e.players, LAMBDA p :
                      \E i \in 1..Len(doors) :
                          ~doors[i].isClosed /\ CollideRect(p.rect, doors[i].rect))
    IN  [e EXCEPT !.messages =
                      @ \o [i \in 1..Len(onOpen) |-> <<"complete">>],
                  !.calls = Append(@, "doors")]

\* resolveDoorCollisions: one "complete" for every player on a door, when no
\* door is closed
resolveDoorCollisions(e) ==
    LET doorsClosed == SelectSeq(doors, LAMBDA d : d.isClosed)
        onDoor == SelectSeq(e.players, LAMBDA p :
                      spritecollide(p.rect, RectsOf(doors)) # <<>>)
    IN  [e EXCEPT !.messages =
                      @ \o [i \in 1..(IF doorsClosed = <<>> THEN Len(onDoor)
                                      ELSE 0) |-> <<"complete">>],
                  !.calls = Append(@, "doors")]

\* resolveSpikeCollisions
resolveSpikeCollisions(e) ==
    [e EXCEPT !.messages =
                  @ \o Deaths(SelectSeq(e.players, LAMBDA p :
                                   spritecollide(p.rect, spikes) # <<>>)),
              !.calls = Append(@, "spikes")]

\* resolveBossCollisions
resolveBossCollisions(e) ==
    [e EXCEPT !.messages =
                  @ \o Deaths(SelectSeq(e.players, LAMBDA p :
                                   spritecollide(p.rect, bosses) # <<>>)),
              !.calls = Append(@, "bosses")]

\* resolveBoundaryCollision: the boundary is built from the scene's size alone
resolveBoundaryCollision(e) ==
    LET boundary == Rect(0 - 1000, 0 - 1000,
                         sceneRect.w + 2000, sceneRect.h + 2000)
    IN  [e EXCEPT !.messages =
                      @ \o Deaths(SelectSeq(e.players, LAMBDA p :
                                       ~Contains(boundary, p.rect))),
                  !.calls = Append(@, "boundary")]

\* self.audio.update(): the audio component plays a pending one-shot effect
\* and returns to idle
audioUpdate(e) == [e EXCEPT !.audio = "idle", !.calls = Append(@, "audio")]

\* physics.addVelocityX / addVelocityY: an impulse added to the velocity
addVelocityX(player, v) == [player EXCEPT !.vx = @ + v]
addVelocityY(player, v) == [player EXCEPT !.vy = @ + v]

\* a mutant of resolvePlayerCollisions: the players are pushed towards each
\* other
resolvePlayerCollisionsInward(e, explosionSpeed) ==
    IF Len(e.players) # 2 THEN [e EXCEPT !.calls = Append(@, "players")]
    ELSE
    LET p1 == e.players[1]
        p2 == e.players[2]
        up1 == addVelocityY(p1, 0 - explosionSpeed)
        up2 == addVelocityY(p2, 0 - explosionSpeed)
        called == [e EXCEPT !.calls = Append(@, "players")]
    IN  IF ~CollideRect(p1.rect, p2.rect) THEN called
        ELSE IF p2.rect.x > p1.rect.x
        THEN [called EXCEPT
                  !.players = <<addVelocityX(up1, explosionSpeed),
                                addVelocityX(up2, 0 - explosionSpeed)>>]
        ELSE [called EXCEPT
                  !.players = <<addVelocityX(up1, 0 - explosionSpeed),
                                addVelocityX(up2, explosionSpeed)>>]

\* resolvePlayerCollisions; unpacking anything but two players raises the
\* ValueError that is swallowed
resolvePlayerCollisions(e, explosionSpeed) ==
    IF Len(e.players) # 2 THEN [e EXCEPT !.calls = Append(@, "players")]
    ELSE
    LET p1 == e.players[1]
        p2 == e.players[2]
        up1 == addVelocityY(p1, 0 - explosionSpeed)
        up2 == addVelocityY(p2, 0 - explosionSpeed)
        called == [e EXCEPT !.calls = Append(@, "players")]
    IN  IF ~CollideRect(p1.rect, p2.rect) THEN called
        ELSE IF p2.rect.x > p1.rect.x
        THEN [called EXCEPT
                  !.players = <<addVelocityX(up1, 0 - explosionSpeed),
                                addVelocityX(up2, explosionSpeed)>>]
        ELSE [called EXCEPT
                  !.players = <<addVelocityX(up1, explosionSpeed),
                                addVelocityX(up2, 0 - explosionSpeed)>>]

\* eventHandler for a KEYDOWN event of the given key
eventHandler(e, key) ==
    LET afterDoors == IF key = "K_RETURN" THEN resolveDoorCollisions(e) ELSE e
    IN  IF Len(afterDoors.players) # 2 THEN afterDoors
        ELSE IF key = afterDoors.players[1].coop_jump
                \/ key = afterDoors.players[2].coop_jump
        THEN [resolvePlayerCollisions(afterDoors, 30)
                  EXCEPT !.audio = "explosion"]
        ELSE afterDoors

\* a mutant of update: the hazards are resolved before the platforms
updateReordered(e) ==
    audioUpdate(
    resolveBoundaryCollision(
    resolveMPlatformCollisions(
    resolveDPlatformCollisions(
    resolveSPlatformCollisions(
    resolveBossCollisions(
    resolveSpikeCollisions(
    resolveSwitchCollisions(
    resolveWallCollisions(e)))))))))

\* update
update(e) ==
    audioUpdate(
    resolveBoundaryCollision(
    resolveBossCollisions(
    resolveSpikeCollisions(
    resolveMPlatformCollisions(
    resolveDPlatformCollisions(
    resolveSPlatformCollisions(
    resolveSwitchCollisions(
    resolveWallCollisions(e)))))))))

----------------------------------------------------------------------------
(* The Basic Resolver on its own: one mover and a group of walls *)

Speeds == {0 - 1, 0, 1}

\* a second wall next to, above or on top of the first one
SecondWalls(first) ==
    {<<>>,
     <<Rect(Right(first), Top(first), first.w, first.h)>>,
     <<Rect(Left(first), Top(first) - first.h - 2, first.w, first.h)>>,
     <<Rect(Right(first) - 2, Top(first) - 3, 2, 3)>>}

InitBasic ==
    /\ \E ow \in Sizes, oh \in Sizes, w \in {2, 3}, h \in {2, 3} :
         \E x \in (0 - w)..ow, y \in (0 - h)..oh, v \in Speeds,
            g \in BOOLEAN, more \in SecondWalls(Rect(0, 0, ow, oh)) :
           /\ players = <<Player(1, Rect(x, y, w, h), v, v, g)>>
           /\ walls = <<Rect(0, 0, ow, oh)>> \o more
    /\ sPlatforms = <<>> /\ dPlatforms = <<>> /\ mPlatforms = <<>>
    /\ switches = <<>> /\ doors = <<>> /\ spikes = <<>> /\ bosses = <<>>
    /\ sceneRect = Rect(0, 0, MaxSize, MaxSize)
    /\ audio = "idle" /\ messages = <<>> /\ calls = <<>>
    /\ event = "none" /\ direction = "unset"

\* one call of resolveWallCollisions, at most MaxApply times in a row
ResolveWalls ==
    /\ Len(calls) < MaxApply
    /\ Commit(resolveWallCollisions(Engine))
    /\ UNCHANGED <<event, direction>>
    /\ UNCHANGED scenery

NextBasic == ResolveWalls

SpecBasic == InitBasic /\ [][NextBasic]_vars

----------------------------------------------------------------------------
(* The classifier on its own: one mover, one static rectangle *)

InitClassify ==
    /\ \E w \in Sizes, h \in Sizes, x \in Offsets, y \in Offsets :
           players = <<Player(1, Rect(x, y, w, h), 0, 0, FALSE)>>
    /\ \E w \in Sizes, h \in Sizes : walls = <<Rect(0, 0, w, h)>>
    /\ sPlatforms = <<>> /\ dPlatforms = <<>> /\ mPlatforms = <<>>
    /\ switches = <<>> /\ doors = <<>> /\ spikes = <<>> /\ bosses = <<>>
    /\ sceneRect = Rect(0, 0, MaxSize, MaxSize)
    /\ audio = "idle" /\ messages = <<>> /\ calls = <<>>
    /\ event = "none" /\ direction = "unset"

CheckDirection ==
    /\ direction = "unset"
    /\ direction' = checkCollisionDirection(players[1].rect, walls[1])
    /\ UNCHANGED <<players, switches, audio, messages, calls, event>>
    /\ UNCHANGED scenery

NextClassify == CheckDirection

SpecClassify == InitClassify /\ [][NextClassify]_vars

----------------------------------------------------------------------------
(* The directional platforms on their own: one player, one or two platforms *)

InitDPlatform ==
    /\ \E x \in {0 - 5, 45, 95}, y \in {0 - 39, 0 - 11, 0 - 10, 0 - 9, 20, 65, 95},
          vx \in {0, 3}, vy \in {0 - 5, 0, 5}, g \in BOOLEAN :
           players = <<Player(1, Rect(x, y, 10, 40), vx, vy, g)>>
    /\ \E h \in {10, 100}, more \in {<<>>, <<Rect(0, 0 - 20, 100, 10)>>} :
           dPlatforms = <<Rect(0, 0, 100, h)>> \o more
    /\ walls = <<>> /\ sPlatforms = <<>> /\ mPlatforms = <<>>
    /\ switches = <<>> /\ doors = <<>> /\ spikes = <<>> /\ bosses = <<>>
    /\ sceneRect = Rect(0, 0, 100, 100)
    /\ audio = "idle" /\ messages = <<>> /\ calls = <<>>
    /\ event = "none" /\ direction = "unset"

\* one call of resolveDPlatformCollisions, at most MaxApply times in a row
ResolveDPlatforms ==
    /\ Len(calls) < MaxApply
    /\ Commit(resolveDPlatformCollisions(Engine))
    /\ UNCHANGED <<event, direction>>
    /\ UNCHANGED scenery

NextDPlatform == ResolveDPlatforms

SpecDPlatform == InitDPlatform /\ [][NextDPlatform]_vars

----------------------------------------------------------------------------
(* The world boundary on its own: two players around the edges of the level *)

\* coordinates around the edges of an interval [from, from + size] grown by
\* 1000 on both ends, for a player 2 units wide
Around(from, size) ==
    {from - 1003, from - 1002, from - 1001, from - 1000, from + 1,
     from + size + 998, from + size + 999, from + size + 1000}

InitBoundary ==
    /\ \E sx \in {0, 3000}, sy \in {0, 3000} :
        /\ sceneRect = Rect(sx, sy, 24, 12)
        /\ \E x1 \in Around(0, 24) \cup Around(sx, 24),
              y1 \in Around(0, 12) \cup Around(sy, 12),
              x2 \in Around(0, 24) \cup Around(sx, 24) :
               players = <<Player(1, Rect(x1, y1, 2, 2), 0, 0, FALSE),
                           Player(2, Rect(x2, sy + 1, 2, 2), 0, 0, FALSE)>>
    /\ walls = <<>> /\ sPlatforms = <<>> /\ dPlatforms = <<>>
    /\ mPlatforms = <<>>
    /\ switches = <<>> /\ doors = <<>> /\ spikes = <<>> /\ bosses = <<>>
    /\ audio = "idle" /\ messages = <<>> /\ calls = <<>>
    /\ event = "none" /\ direction = "unset"

\* one call of resolveBoundaryCollision
ResolveBoundary ==
    /\ calls = <<>>
    /\ Commit(resolveBoundaryCollision(Fresh))
    /\ UNCHANGED <<event, direction>>
    /\ UNCHANGED scenery

NextBoundary == ResolveBoundary

SpecBoundary == InitBoundary /\ [][NextBoundary]_vars

----------------------------------------------------------------------------
(* The engine in a level: key presses and ticks *)

Keys == {"K_RETURN", "K_p1jump", "K_p2jump", "K_other"}

StartSpeeds == {0 - MaxSpeed, 0, MaxSpeed}

StartPlayers(num) ==
    {Player(num, Rect(x, y, 2, 2), vx, vy, FALSE) :
        x \in {0, 1, 5, 14}, y \in {8, 9}, vx \in StartSpeeds, vy \in StartSpeeds}

Init ==
    /\ \E n \in 0..3, p1 \in StartPlayers(1), p2 \in StartPlayers(2) :
           players = SubSeq(<<p1, p2, Player(3, Rect(20, 8, 2, 2), 0, 0, FALSE)>>,
                            1, n)
    /\ walls = <<Rect(0, 10, 24, 2)>>
    /\ sPlatforms = <<Rect(16, 9, 2, 1)>>
    /\ dPlatforms = <<Rect(8, 9, 3, 1)>>
    /\ mPlatforms = <<[rect |-> Rect(13, 9, 3, 1), dx |-> 1, dy |-> 0]>>
    /\ switches = <<[rect |-> Rect(6, 8, 2, 2), isOn |-> TRUE]>>
    /\ \E c1 \in BOOLEAN, c2 \in BOOLEAN :
           doors = <<[rect |-> Rect(0, 8, 2, 2), isClosed |-> c1],
                     [rect |-> Rect(4, 8, 2, 2), isClosed |-> c2]>>
    /\ spikes = <<Rect(20, 9, 2, 1)>>
    /\ bosses = <<Rect(22, 8, 2, 2)>>
    /\ sceneRect = Rect(0, 0, 24, 12)
    /\ audio = "idle" /\ messages = <<>> /\ calls = <<>>
    /\ event = "none" /\ direction = "unset"

\* the caps that keep the velocities and the displacements bounded
Capped ==
    \A i \in 1..Len(players) :
        /\ Abs(players[i].vx) <= MaxSpeed
        /\ Abs(players[i].vy) <= MaxSpeed
        /\ Abs(players[i].dispX) <= MaxDisp
        /\ Abs(players[i].dispY) <= MaxDisp

\* eventHandler(event) for a KEYDOWN event
KeyDown(key) ==
    /\ Capped
    /\ event' = key
    /\ Commit(eventHandler(Fresh, key))
    /\ UNCHANGED direction
    /\ UNCHANGED scenery

\* update(), once per tick
Tick ==
    /\ Capped
    /\ event' = "tick"
    /\ Commit(update(Fresh))
    /\ UNCHANGED direction
    /\ UNCHANGED scenery

Next ==
    \/ \E key \in Keys : KeyDown(key)
    \/ Tick

Spec == Init /\ [][Next]_vars

----------------------------------------------------------------------------
(* Claims about the classifier, checked under SpecClassify *)

Sides == {"bottom", "left", "top", "right"}

Mover == players[1].rect
Static == walls[1]

\* the rectangles share interior points (stated without CollideRect)
Overlapping(a, b) ==
    \E px \in a.x..(a.x + a.w - 1), py \in a.y..(a.y + a.h - 1) :
        /\ b.x <= px /\ px < b.x + b.w
        /\ b.y <= py /\ py < b.y + b.h

XWithin(m, s) == Left(s) <= Left(m) /\ Right(m) <= Right(s)
YWithin(m, s) == Top(s) <= Top(m) /\ Bottom(m) <= Bottom(s)
OutAbove(m, s) == Top(m) < Top(s) /\ Bottom(m) <= Bottom(s)
OutBelow(m, s) == Bottom(m) > Bottom(s) /\ Top(m) >= Top(s)
OutRight(m, s) == Right(m) > Right(s) /\ Left(m) >= Left(s)
OutLeft(m, s) == Left(m) < Left(s) /\ Right(m) <= Right(s)

\* the side of approach of the configuration of C2, "no" outside it
Approach(m, s) ==
    IF XWithin(m, s) /\ OutAbove(m, s) THEN "bottom"
    ELSE IF XWithin(m, s) /\ OutBelow(m, s) THEN "top"
    ELSE IF YWithin(m, s) /\ OutRight(m, s) THEN "left"
    ELSE IF YWithin(m, s) /\ OutLeft(m, s) THEN "right"
    ELSE "no"

RelX(m, s) == CenterX(m) - CenterX(s)
RelY(m, s) == CenterY(m) - CenterY(s)

\* the distances from the static's integer centre to its four edges
ToLeft(s) == CenterX(s) - Left(s)
ToRight(s) == Right(s) - CenterX(s)
ToTop(s) == CenterY(s) - Top(s)
ToBottom(s) == Bottom(s) - CenterY(s)

\* the mover's centre lies strictly between the two spokes (the lines from the
\* static's centre to its corners) that bound the given side's sector
InSector(side, m, s) ==
    LET dx == RelX(m, s)
        dy == RelY(m, s)
    IN  CASE side = "bottom" ->
               /\ dy < 0
               /\ dx <= 0 => (0 - dx) * ToTop(s) < (0 - dy) * ToLeft(s)
               /\ dx >= 0 => dx * ToTop(s) < (0 - dy) * ToRight(s)
          [] side = "top" ->
               /\ dy > 0
               /\ dx <= 0 => (0 - dx) * ToBottom(s) < dy * ToLeft(s)
               /\ dx >= 0 => dx * ToBottom(s) < dy * ToRight(s)
          [] side = "left" ->
               /\ dx > 0
               /\ dy <= 0 => (0 - dy) * ToRight(s) < dx * ToTop(s)
               /\ dy >= 0 => dy * ToRight(s) < dx * ToBottom(s)
          [] side = "right" ->
               /\ dx < 0
               /\ dy <= 0 => (0 - dy) * ToLeft(s) < (0 - dx) * ToTop(s)
               /\ dy >= 0 => dy * ToLeft(s) < (0 - dx) * ToBottom(s)
          [] OTHER -> FALSE

C9_AlwaysASide ==
    (direction # "unset" /\ Overlapping(Mover, Static)) => direction \in Sides

----------------------------------------------------------------------------
(* Claims about the Basic Resolver, checked under SpecBasic *)

\* C3: with a single obstacle, a second application of the Basic Resolver
\* changes nothing of the mover, and neither does an application to a pair
\* that does not overlap.
C3_Idempotent ==
    [][(Len(walls) = 1
          /\ (Len(calls) >= 1 \/ ~Overlapping(players[1].rect, walls[1])))
       => players' = players]_vars

\* the resolver has run twice on a mover it snapped on top of the obstacle
C3_Witness ==
    /\ Len(walls) = 1
    /\ Len(calls) = 2
    /\ Bottom(players[1].rect) = Top(walls[1])
    /\ players[1].isOnGround
    /\ players[1].vy = 0

\* C10 as stated: after a call of the Basic Resolver the mover overlaps no
\* obstacle of the set.
C10_NoPenetration ==
    Len(calls) >= 1
    => \A i \in 1..Len(walls) : ~Overlapping(players[1].rect, walls[i])

----------------------------------------------------------------------------
(* Claims about the directional platforms, checked under SpecDPlatform *)

\* the platforms the player overlaps
DHits == SelectSeq(dPlatforms, LAMBDA d : Overlapping(players[1].rect, d))

\* C7: for a player on exactly one directional platform: classified "bottom"
\* with a gap above 30 nothing changes; classified "bottom" with a gap under 30
\* the player's bottom is snapped to the platform's top, the player is on
\* ground, a downward velocity becomes zero and an upward one is kept; with any
\* other classification nothing changes.
C7_Tolerance ==
    [][Len(DHits) = 1 =>
        LET p == players[1]
            q == players'[1]
            platform == DHits[1]
            d == checkCollisionDirection(p.rect, platform)
            gap == Abs(Bottom(p.rect) - Top(platform))
        IN  /\ (d = "bottom" /\ gap > 30) => q = p
            /\ (d = "bottom" /\ gap < 30) =>
                  /\ Bottom(q.rect) = Top(platform)
                  /\ q.rect.x = p.rect.x
                  /\ q.isOnGround
                  /\ p.vy > 0 => q.vy = 0
                  /\ p.vy < 0 => q.vy = p.vy
                  /\ q.vx = p.vx
            /\ d # "bottom" => q = p]_vars

\* a player moving up was snapped on top of the platform and still moves up
C7_Witness ==
    /\ Len(calls) >= 1
    /\ Bottom(players[1].rect) = Top(dPlatforms[1])
    /\ players[1].isOnGround
    /\ players[1].vy < 0

\* a player classified "bottom" more than 30 deep in a platform was left alone
C7_WitnessDeep ==
    /\ Len(calls) >= 1
    /\ Len(dPlatforms) = 1
    /\ checkCollisionDirection(players[1].rect, dPlatforms[1]) = "bottom"
    /\ Bottom(players[1].rect) - Top(dPlatforms[1]) > 30

----------------------------------------------------------------------------
(* Claims about the world boundary, checked under SpecBoundary *)

\* the scene rectangle grown by the margin on each side
Expanded(scene) ==
    Rect(scene.x - 1000, scene.y - 1000, scene.w + 2000, scene.h + 2000)

Inside(inner, outer) ==
    /\ Left(outer) <= Left(inner) /\ Right(inner) <= Right(outer)
    /\ Top(outer) <= Top(inner) /\ Bottom(inner) <= Bottom(outer)

Sent(msg) == \E i \in 1..Len(messages) : messages[i] = msg

\* C4 as stated: wherever the scene rectangle is, the boundary step sends no
\* death notification for a player inside the scene rectangle grown by the
\* margin, and sends one with the player's number for a player entirely
\* outside of it.
C4_BoundaryDeath ==
    calls = <<"boundary">> =>
        \A i \in 1..Len(players) :
            /\ Inside(players[i].rect, Expanded(sceneRect))
                  => ~Sent(<<"death", players[i].num>>)
            /\ ~Overlapping(players[i].rect, Expanded(sceneRect))
                  => Sent(<<"death", players[i].num>>)

----------------------------------------------------------------------------
(* Claims about the engine in a level, checked under Spec *)

JumpKeys == {"K_p1jump", "K_p2jump"}

SameVelocities ==
    \A i \in 1..Len(players) :
        players'[i].vx = players[i].vx /\ players'[i].vy = players[i].vy

\* C1 as stated: a cooperative-jump key press with other than two players, or
\* with two players that do not overlap, changes no velocity and does not set
\* the audio state to "explosion".
C1_NoEffect ==
    [][(event' \in JumpKeys
          /\ (Len(players) # 2
                \/ ~Overlapping(players[1].rect, players[2].rect)))
       => (SameVelocities /\ (audio # "explosion" => audio' # "explosion"))]_vars

\* C5: a tick runs the resolvers once each in the order walls, switches, static
\* platforms, directional platforms, moving platforms, spikes, bosses, world
\* boundary, and the audio update once, last.
C5_UpdateOrder ==
    event = "tick" =>
        calls = <<"walls", "switches", "sPlatforms", "dPlatforms", "mPlatforms",
                  "spikes", "bosses", "boundary", "audio">>

\* a tick that put a player on the ground, turned the switch off and sent a
\* notification
C5_Witness ==
    /\ event = "tick"
    /\ \E i \in 1..Len(players) : players[i].isOnGround
    /\ ~switches[1].isOn
    /\ messages # <<>>

\* the explosion step: a cooperative-jump key press with two overlapping
\* players at different x
Explosion ==
    /\ event' \in JumpKeys
    /\ Len(players) = 2
    /\ Overlapping(players[1].rect, players[2].rect)
    /\ players[1].rect.x # players[2].rect.x

\* the index of the player at the smaller x (A) and at the larger x (B)
IdxA == IF players[1].rect.x < players[2].rect.x THEN 1 ELSE 2
IdxB == 3 - IdxA

AtRest(p) == p.vx = 0 /\ p.vy = 0

OnDoor ==
    \E i \in 1..Len(players), k \in 1..Len(doors) :
        Overlapping(players[i].rect, doors[k].rect)

NoDoorClosed == \A k \in 1..Len(doors) : ~doors[k].isClosed

\* C8: after a confirm key press, completion was signaled if and only if a
\* player overlaps a door and no door is closed.
C8_DoorCompletion ==
    event = "K_RETURN" => (Sent(<<"complete">>) <=> (OnDoor /\ NoDoorClosed))

\* a confirm key press with a player on an open door while the other door is
\* closed: no completion
C8_Witness ==
    /\ event = "K_RETURN"
    /\ \E i \in 1..Len(players), k \in 1..Len(doors) :
          Overlapping(players[i].rect, doors[k].rect) /\ ~doors[k].isClosed
    /\ ~NoDoorClosed
    /\ ~Sent(<<"complete">>)

\* a confirm key press that signaled completion
C8_WitnessComplete == event = "K_RETURN" /\ Sent(<<"complete">>)

====
